---- MODULE Spec2Model ----
(***************************************************************************)
(* The session lifecycle and scan-acquisition pipeline of the two capture  *)
(* programs of rplidar_sdk:                                                *)
(*   read_data_bin  (src/app/read_data_bin/main.cpp)  continuous capture   *)
(*   sample_data    (src/app/sample_data/main.cpp)    multi-mode sweep     *)
(* Each program is a single thread; pc is its position in main().  The     *)
(* vendor driver, the serial channel and the file system are the           *)
(* environment: every call into them returns a nondeterministically chosen *)
(* outcome.  log records, in program order, every driver call (with the    *)
(* result the driver returned and the call's argument), every line written *)
(* to stderr, the "Working in mode" line of stdout and every write to an   *)
(* export artifact.                                                        *)
(*                                                                         *)
(* Export-file creation by fmt::output_file and row formatting by          *)
(* of.print are taken to succeed (they throw otherwise); std::ofstream     *)
(* does not throw, so its open and its writes may fail silently.           *)
(***************************************************************************)
EXTENDS Integers, Sequences, FiniteSets, TLC

VARIABLES
    prog,        \* which program runs
    pc,          \* position in main()
    exitStatus,  \* process exit status, meaningful once pc = "done"
    log,         \* ordered history of calls, reports and writes
    ofGood,      \* read_data_bin: std::ofstream of is in the good() state
    file,        \* read_data_bin: words of data.bin
    modes,       \* sample_data: std::vector<LidarScanMode> modes
    idx,         \* sample_data: position of the range-for over modes (1-based)
    actualMode,  \* sample_data: LidarScanMode actualMode (its id)
    csv,         \* sample_data: rows of each per-mode artifact, by file name
    nodes,       \* the first count elements of std::array<..., 8192> nodes
    count,       \* size_t count
    op_result    \* result of the last grabScanDataHq

vars == <<prog, pc, exitStatus, log, ofGood, file, modes, idx, actualMode,
          csv, nodes, count, op_result>>

-----------------------------------------------------------------------------
(* Bounds of the model *)

\* scan modes a device may advertise (length of the enumerated list)
MaxModes == 2
\* successful retrievals of one continuous capture
MaxBatches == 2

(* Program constants *)

\* std::array<sl_lidar_response_measurement_node_hq_t, 8192> nodes
NodesSize == 8192
\* SL_LIDAR_RESP_MEASUREMENT_QUALITY_SHIFT
QualityShift == 2
\* the divisor of the angle conversion, 16384.f
AngleDiv == 16384
\* the factor of the angle conversion, 90.f
AngleMul == 90
\* the divisor of the distance conversion, 4.0f
DistDiv == 4

Programs == {"read_data_bin", "sample_data"}

\* SL_LIDAR_STATUS_OK, SL_LIDAR_STATUS_WARNING, SL_LIDAR_STATUS_ERROR
HealthStatuses == {"OK", "WARNING", "ERROR"}

\* ids of the modes a device advertises; Garbage is what an unset
\* LidarScanMode may hold besides
ModeIds == {0, 1}
Garbage == -1

ScanModeName(id) == IF id = 0 THEN "Standard" ELSE "Express"

LidarScanMode(id) == [id |-> id, scan_mode |-> ScanModeName(id)]

\* measurement nodes a retrieval may deliver
NodeA == [angle_z_q14 |-> 16384, dist_mm_q2 |-> 40, quality |-> 188, flag |-> 1]
NodeB == [angle_z_q14 |-> 8192,  dist_mm_q2 |-> 6,  quality |-> 60,  flag |-> 0]

\* batches a retrieval may deliver: an empty one and one out of angular order
Batches == {<<>>, <<NodeA, NodeB>>}

\* every list of at most n advertised modes, in any order, repeats allowed
RECURSIVE ModeLists(_)
ModeLists(n) ==
    IF n = 0 THEN {<<>>}
    ELSE LET shorter == ModeLists(n - 1)
         IN  shorter \cup {Append(l, LidarScanMode(i)) : l \in shorter, i \in ModeIds}

-----------------------------------------------------------------------------
(* Helpers *)

Event(op, ok, arg) == [op |-> op, ok |-> ok, arg |-> arg]

Logged(evs) == log' = log \o evs

\* exit(status) / return status from main
Exit(status) == pc' = "done" /\ exitStatus' = status

\* drv->ascendScanData: the vendor driver's reorder into ascending angle
RECURSIVE InsertByAngle(_, _)
InsertByAngle(n, s) ==
    IF s = <<>> THEN <<n>>
    ELSE IF n.angle_z_q14 < Head(s).angle_z_q14 THEN <<n>> \o s
    ELSE <<Head(s)>> \o InsertByAngle(n, Tail(s))

RECURSIVE ascendScanData(_)
ascendScanData(s) ==
    IF s = <<>> THEN <<>>
    ELSE InsertByAngle(Head(s), ascendScanData(Tail(s)))

IsAscending(s) ==
    \A i \in 1..(Len(s) - 1) : s[i].angle_z_q14 <= s[i + 1].angle_z_q14

\* a / b as a fraction in lowest terms
RECURSIVE GCD(_, _)
GCD(a, b) == IF b = 0 THEN a ELSE GCD(b, a % b)

Frac(a, b) == LET g == GCD(a, b) IN <<a \div g, b \div g>>

\* the spacing of the floats (24-bit significand) around the integer n >= 0
RECURSIVE Ulp(_)
Ulp(n) == IF n < 16777216 THEN 1 ELSE 2 * Ulp(n \div 2)

\* the conversion of an unsigned integer to float: to the nearest float, a
\* tie to the one with the even significand
ToFloat(n) ==
    CHOOSE f \in {LET q == Ulp(m)
                      r == m % q
                  IN  IF 2 * r < q THEN m - r
                      ELSE IF 2 * r > q THEN m - r + q
                      ELSE IF (m \div q) % 2 = 0 THEN m - r ELSE m - r + q
                  : m \in {n}} : TRUE

\* a row that leaves the distance in quarter millimetres
RowDistUnscaled(n) ==
    [theta |-> Frac(ToFloat(ToFloat(n.angle_z_q14) * AngleMul), AngleDiv),
     dist  |-> Frac(ToFloat(n.dist_mm_q2), 1),
     q     |-> n.quality \div (2 ^ QualityShift),
     flag  |-> IF n.flag % 2 = 1 THEN "S" ELSE ""]

\* one row of the per-mode table; the arithmetic is in float, where a
\* division by a power of two is exact
Row(n) ==
    [theta |-> Frac(ToFloat(ToFloat(n.angle_z_q14) * AngleMul), AngleDiv),
     dist  |-> Frac(ToFloat(n.dist_mm_q2), DistDiv),
     q     |-> n.quality \div (2 ^ QualityShift),
     flag  |-> IF n.flag % 2 = 1 THEN "S" ELSE ""]

Rows(s) == [i \in 1..Len(s) |-> Row(s[i])]

\* fmt::format("{}_{}_data.csv", mode.id, mode.scan_mode)
Filename(mode) == <<mode.id, mode.scan_mode, "data.csv">>

Filenames == {Filename(LidarScanMode(i)) : i \in ModeIds}

\* the words of one block of data.bin
CountWord(n) == <<"size_t", n>>
NodeWords(s) == [i \in 1..Len(s) |-> <<"node", s[i]>>]

-----------------------------------------------------------------------------
Init ==
    /\ prog \in Programs
    /\ pc = "makeChannel"
    /\ exitStatus = 0
    /\ log = <<>>
    /\ ofGood = FALSE
    /\ file = <<>>
    /\ modes = <<>>
    /\ idx = 1
    /\ actualMode = Garbage
    /\ csv = [f \in Filenames |-> <<>>]
    /\ nodes = <<>>
    /\ count = 0
    /\ op_result = TRUE

-----------------------------------------------------------------------------
(* Session bootstrap: the same code in both programs *)

\* makeChannel with one exit status for both of its failures
makeChannelOneStatus ==
    /\ pc = "makeChannel"
    /\ \E r \in {"ok", "err", "null"} :
          CASE r = "err" ->
                  /\ Logged(<<Event("stderr: Failed to create channel", FALSE, 0)>>)
                  /\ Exit(-1)
            [] r = "null" ->
                  /\ Logged(<<Event("stderr: insufficent memory, exit", FALSE, 0)>>)
                  /\ Exit(-1)
            [] OTHER ->
                  /\ pc' = "makeDriver"
                  /\ UNCHANGED <<log, exitStatus>>
    /\ UNCHANGED <<prog, ofGood, file, modes, idx, actualMode, csv, nodes,
                   count, op_result>>

\* makeChannel("/dev/ttyUSB0", 115200)
makeChannel ==
    /\ pc = "makeChannel"
    /\ \E r \in {"ok", "err", "null"} :
          CASE r = "err" ->
                  /\ Logged(<<Event("stderr: Failed to create channel", FALSE, 0)>>)
                  /\ Exit(-1)
            [] r = "null" ->
                  /\ Logged(<<Event("stderr: insufficent memory, exit", FALSE, 0)>>)
                  /\ Exit(-2)
            [] OTHER ->
                  /\ pc' = "makeDriver"
                  /\ UNCHANGED <<log, exitStatus>>
    /\ UNCHANGED <<prog, ofGood, file, modes, idx, actualMode, csv, nodes,
                   count, op_result>>

\* makeDriver(channel): createLidarDriver, then connect
makeDriver ==
    /\ pc = "makeDriver"
    /\ \E r \in {"ok", "err", "null"}, res \in BOOLEAN :
          CASE r = "err" ->
                  /\ Logged(<<Event("stderr: Failed to create lidar driver", FALSE, 0)>>)
                  /\ Exit(-1)
            [] r = "null" ->
                  /\ Logged(<<Event("stderr: insufficent memory, exit", FALSE, 0)>>)
                  /\ Exit(-2)
            [] OTHER ->
                  IF res
                  THEN /\ Logged(<<Event("connect", TRUE, 0)>>)
                       /\ pc' = "getDeviceInfo"
                       /\ UNCHANGED exitStatus
                  ELSE /\ Logged(<<Event("connect", FALSE, 0),
                                   Event("stderr: Failed to connect channel to driver", FALSE, 0)>>)
                       /\ Exit(-1)
    /\ UNCHANGED <<prog, ofGood, file, modes, idx, actualMode, csv, nodes,
                   count, op_result>>

\* getDeviceInfo with its result reported but not returned on
getDeviceInfoUnchecked ==
    /\ pc = "getDeviceInfo"
    /\ \E res \in BOOLEAN :
          IF res
          THEN Logged(<<Event("getDeviceInfo", TRUE, 0)>>)
          ELSE Logged(<<Event("getDeviceInfo", FALSE, 0),
                        Event("stderr: Failed to get device info", FALSE, 0)>>)
    /\ pc' = "checkHealth"
    /\ UNCHANGED <<prog, exitStatus, ofGood, file, modes, idx, actualMode,
                   csv, nodes, count, op_result>>

\* drv->getDeviceInfo(devinfo) and the print of the device identity
getDeviceInfo ==
    /\ pc = "getDeviceInfo"
    /\ \E res \in BOOLEAN :
          IF res
          THEN /\ Logged(<<Event("getDeviceInfo", TRUE, 0)>>)
               /\ pc' = "checkHealth"
               /\ UNCHANGED exitStatus
          ELSE /\ Logged(<<Event("getDeviceInfo", FALSE, 0),
                           Event("stderr: Failed to get device info", FALSE, 0)>>)
               /\ Exit(-1)
    /\ UNCHANGED <<prog, ofGood, file, modes, idx, actualMode, csv, nodes,
                   count, op_result>>

\* Event.arg of a getHealth call: the status the device reported
StatusCode(st) == IF st = "OK" THEN 0 ELSE IF st = "WARNING" THEN 1 ELSE 2

\* the health check with the commented-out reset taken for the handling of
\* ERROR: the status is printed and the check passes whatever it is
checkHealthErrorPasses ==
    /\ pc = "checkHealth"
    /\ \E op \in BOOLEAN, status \in HealthStatuses :
          IF op
          THEN /\ Logged(<<Event("getHealth", TRUE, StatusCode(status))>>)
               /\ pc' = "setMotorSpeed"
               /\ UNCHANGED exitStatus
          ELSE /\ status = "OK"
               /\ Logged(<<Event("getHealth", FALSE, 0),
                           Event("stderr: Error, cannot retrieve the lidar health code", FALSE, 0)>>)
               /\ Exit(-1)
    /\ UNCHANGED <<prog, ofGood, file, modes, idx, actualMode, csv, nodes,
                   count, op_result>>

\* if (!checkSLAMTECLIDARHealth(drv)) return -1;
checkSLAMTECLIDARHealth ==
    /\ pc = "checkHealth"
    /\ \E op \in BOOLEAN, status \in HealthStatuses :
          IF op
          THEN IF status = "ERROR"
               THEN /\ Logged(<<Event("getHealth", TRUE, StatusCode(status)),
                                Event("stderr: Error, slamtec lidar internal error detected", FALSE, 0)>>)
                    /\ Exit(-1)
               ELSE /\ Logged(<<Event("getHealth", TRUE, StatusCode(status))>>)
                    /\ pc' = "setMotorSpeed"
                    /\ UNCHANGED exitStatus
          ELSE /\ status = "OK"   \* healthinfo is not read when the query failed
               /\ Logged(<<Event("getHealth", FALSE, 0),
                           Event("stderr: Error, cannot retrieve the lidar health code", FALSE, 0)>>)
               /\ Exit(-1)
    /\ UNCHANGED <<prog, ofGood, file, modes, idx, actualMode, csv, nodes,
                   count, op_result>>

\* drv->setMotorSpeed(): the result is not looked at
setMotorSpeed ==
    /\ pc = "setMotorSpeed"
    /\ \E res \in BOOLEAN : Logged(<<Event("setMotorSpeed", res, 0)>>)
    /\ pc' = IF prog = "read_data_bin" THEN "openFile" ELSE "getModes"
    /\ UNCHANGED <<prog, exitStatus, ofGood, file, modes, idx, actualMode,
                   csv, nodes, count, op_result>>

-----------------------------------------------------------------------------
(* read_data_bin: continuous capture *)

\* std::ofstream of("data.bin", std::ios::out | std::ios::binary);
\* the open may fail, which leaves the stream failed and the code unaware
openFile ==
    /\ pc = "openFile"
    /\ prog = "read_data_bin"
    /\ \E good \in BOOLEAN : ofGood' = good
    /\ file' = <<>>
    /\ pc' = "startScan"
    /\ UNCHANGED <<prog, exitStatus, log, modes, idx, actualMode, csv, nodes,
                   count, op_result>>

\* drv->startScan(false, true): the result is not looked at
startScan ==
    /\ pc = "startScan"
    /\ \E res \in BOOLEAN : Logged(<<Event("startScan", res, 0)>>)
    /\ pc' = "grab"
    /\ UNCHANGED <<prog, exitStatus, ofGood, file, modes, idx, actualMode,
                   csv, nodes, count, op_result>>

\* the failure branch without its stop()
grabFailedNoStop(capacity) ==
    /\ Logged(<<Event("grabScanDataHq", FALSE, capacity),
                Event("stderr: Failed to read from lidar", FALSE, 0)>>)
    /\ op_result' = FALSE
    /\ Exit(-1)
    /\ UNCHANGED <<nodes, count>>

\* the failure branch with a continue in place of the return
grabFailedContinues(capacity) ==
    /\ Logged(<<Event("grabScanDataHq", FALSE, capacity),
                Event("stderr: Failed to read from lidar", FALSE, 0)>>)
    /\ op_result' = FALSE
    /\ pc' = "grab"
    /\ UNCHANGED <<nodes, count, exitStatus>>

\* the failure branch of the capture loop: report, stop, return -1
grabFailed(capacity) ==
    /\ Logged(<<Event("grabScanDataHq", FALSE, capacity),
                Event("stderr: Failed to read from lidar", FALSE, 0),
                Event("stop", TRUE, 0)>>)
    /\ op_result' = FALSE
    /\ Exit(-1)
    /\ UNCHANGED <<nodes, count>>

\* the head of the capture loop: count = nodes.size(), grabScanDataHq, and
\* the test of its result
grab ==
    /\ pc = "grab"
    /\ LET capacity == NodesSize
       IN  \/ grabFailed(capacity)
           \/ \E batch \in Batches :
                 /\ Len(batch) <= capacity
                 /\ Len(SelectSeq(log, LAMBDA e : e.op = "grabScanDataHq")) < MaxBatches
                 /\ Logged(<<Event("grabScanDataHq", TRUE, capacity)>>)
                 /\ op_result' = TRUE
                 /\ nodes' = batch
                 /\ count' = Len(batch)
                 /\ pc' = "ascend"
                 /\ UNCHANGED exitStatus
    /\ UNCHANGED <<prog, ofGood, file, modes, idx, actualMode, csv>>

\* drv->ascendScanData(nodes.data(), count)
ascend ==
    /\ pc = "ascend"
    /\ nodes' = ascendScanData(nodes)
    /\ Logged(<<Event("ascendScanData", TRUE, count)>>)
    /\ pc' = "writeCount"
    /\ UNCHANGED <<prog, exitStatus, ofGood, file, modes, idx, actualMode,
                   csv, count, op_result>>

\* of.write(words): a failed stream writes nothing; a good one may fail now
ofWrite(words, n, next) ==
    /\ \/ /\ ofGood
          /\ \E done \in BOOLEAN :
                /\ ofGood' = done
                /\ file' = IF done THEN file \o words ELSE file
                /\ Logged(<<Event("of.write", done, n)>>)
       \/ /\ ~ofGood
          /\ Logged(<<Event("of.write", FALSE, n)>>)
          /\ UNCHANGED <<ofGood, file>>
    /\ pc' = next

\* of.write(reinterpret_cast<char *>(&count), sizeof(size_t))
writeCount ==
    /\ pc = "writeCount"
    /\ ofWrite(<<CountWord(count)>>, 0, "writeNodes")
    /\ UNCHANGED <<prog, exitStatus, modes, idx, actualMode, csv, nodes,
                   count, op_result>>

\* the second write followed by a break out of the capture loop
writeNodesBreaks ==
    /\ pc = "writeNodes"
    /\ ofWrite(NodeWords(nodes), count, "stop")
    /\ nodes' = <<>>
    /\ count' = 0
    /\ UNCHANGED <<prog, exitStatus, modes, idx, actualMode, csv, op_result>>

\* of.write(reinterpret_cast<char *>(nodes.data()), count * sizeof(...)),
\* then the end of the loop body, where nodes and count go out of scope
writeNodes ==
    /\ pc = "writeNodes"
    /\ ofWrite(NodeWords(nodes), count, "grab")
    /\ nodes' = <<>>
    /\ count' = 0
    /\ UNCHANGED <<prog, exitStatus, modes, idx, actualMode, csv, op_result>>

-----------------------------------------------------------------------------
(* sample_data: multi-mode sweep *)

\* drv->getAllSupportedScanModes(modes)
getAllSupportedScanModes ==
    /\ pc = "getModes"
    /\ prog = "sample_data"
    /\ \/ /\ Logged(<<Event("getAllSupportedScanModes", FALSE, 0),
                      Event("stderr: Failed to get scan modes", FALSE, 0)>>)
          /\ Exit(-1)
          /\ UNCHANGED <<modes, idx>>
       \/ /\ \E l \in ModeLists(MaxModes) : modes' = l
          /\ idx' = 1
          /\ Logged(<<Event("getAllSupportedScanModes", TRUE, 0)>>)
          /\ pc' = "loop"
          /\ UNCHANGED exitStatus
    /\ UNCHANGED <<prog, ofGood, file, actualMode, csv, nodes, count, op_result>>

\* for (auto & mode : modes): the test of the loop, and for the next mode the
\* creation of its artifact and the header row
loop ==
    /\ pc = "loop"
    /\ IF idx <= Len(modes)
       THEN LET mode == modes[idx]
            IN  /\ csv' = [csv EXCEPT ![Filename(mode)] = <<"theta,dist,q,flag">>]
                /\ Logged(<<Event("of.print: header", TRUE, mode.id)>>)
                /\ pc' = "startScanExpress"
       ELSE /\ pc' = "stop"
            /\ UNCHANGED <<csv, log>>
    /\ UNCHANGED <<prog, exitStatus, ofGood, file, modes, idx, actualMode,
                   nodes, count, op_result>>

\* LidarScanMode actualMode; drv->startScanExpress(false, mode.id, 0, &actualMode);
\* println("    Working in mode {} {}", actualMode.id, actualMode.scan_mode);
\* the result is not looked at, and actualMode is unset unless the driver set it
startScanExpress ==
    /\ pc = "startScanExpress"
    /\ \E res \in BOOLEAN, got \in ModeIds \cup {Garbage} :
          /\ res => got \in ModeIds
          /\ actualMode' = got
          /\ Logged(<<Event("startScanExpress", res, modes[idx].id),
                      Event("stdout: Working in mode", TRUE, got)>>)
    /\ pc' = "grabSweep"
    /\ UNCHANGED <<prog, exitStatus, ofGood, file, modes, idx, csv, nodes,
                   count, op_result>>

\* the retrieval without count = nodes.size() before it: the capacity passed
\* is whatever count holds
grabSweepStaleCount ==
    /\ pc = "grabSweep"
    /\ LET capacity == count
       IN  \E res \in BOOLEAN, batch \in Batches :
              /\ Len(batch) <= capacity
              /\ Logged(<<Event("grabScanDataHq", res, capacity)>>)
              /\ op_result' = res
              /\ nodes' = batch
              /\ count' = Len(batch)
    /\ pc' = "export"
    /\ UNCHANGED <<prog, exitStatus, ofGood, file, modes, idx, actualMode, csv>>

\* count = nodes.size(); auto op_result = drv->grabScanDataHq(nodes.data(), count);
grabSweep ==
    /\ pc = "grabSweep"
    /\ LET capacity == NodesSize
       IN  \E res \in BOOLEAN, batch \in Batches :
              /\ Len(batch) <= capacity
              /\ Logged(<<Event("grabScanDataHq", res, capacity)>>)
              /\ op_result' = res
              /\ nodes' = batch
              /\ count' = Len(batch)
    /\ pc' = "export"
    /\ UNCHANGED <<prog, exitStatus, ofGood, file, modes, idx, actualMode, csv>>

\* Event.arg of a row written: its position in the batch
RowEvents(n) == [pos \in 1..n |-> Event("of.print: row", TRUE, pos - 1)]

\* the loop body with a break on a failed retrieval
exportAbortsSweep ==
    /\ pc = "export"
    /\ IF op_result
       THEN LET sorted == ascendScanData(nodes)
                name   == Filename(modes[idx])
            IN  /\ csv' = [csv EXCEPT ![name] = csv[name] \o Rows(sorted)]
                /\ Logged(<<Event("ascendScanData", TRUE, count)>> \o RowEvents(count))
                /\ idx' = idx + 1
                /\ pc' = "loop"
       ELSE /\ pc' = "stop"
            /\ UNCHANGED <<csv, log, idx>>
    /\ nodes' = <<>>
    /\ count' = 0
    /\ actualMode' = Garbage
    /\ UNCHANGED <<prog, exitStatus, ofGood, file, modes, op_result>>

\* the loop body with a return -1 on a failed retrieval
exportReturnsOnFailure ==
    /\ pc = "export"
    /\ IF op_result
       THEN LET sorted == ascendScanData(nodes)
                name   == Filename(modes[idx])
            IN  /\ csv' = [csv EXCEPT ![name] = csv[name] \o Rows(sorted)]
                /\ Logged(<<Event("ascendScanData", TRUE, count)>> \o RowEvents(count))
                /\ idx' = idx + 1
                /\ pc' = "loop"
                /\ UNCHANGED exitStatus
       ELSE /\ Exit(-1)
            /\ UNCHANGED <<csv, log, idx>>
    /\ nodes' = <<>>
    /\ count' = 0
    /\ actualMode' = Garbage
    /\ UNCHANGED <<prog, ofGood, file, modes, op_result>>

\* the loop body without the call of ascendScanData
exportUnsorted ==
    /\ pc = "export"
    /\ IF op_result
       THEN LET name == Filename(modes[idx])
            IN  /\ csv' = [csv EXCEPT ![name] = csv[name] \o Rows(nodes)]
                /\ Logged(RowEvents(count))
       ELSE UNCHANGED <<csv, log>>
    /\ idx' = idx + 1
    /\ nodes' = <<>>
    /\ count' = 0
    /\ actualMode' = Garbage
    /\ pc' = "loop"
    /\ UNCHANGED <<prog, exitStatus, ofGood, file, modes, op_result>>

\* if (SL_IS_OK(op_result)) { ascendScanData; one row per node }, then the
\* end of the loop body: the artifact is closed, the locals go out of scope
export ==
    /\ pc = "export"
    /\ IF op_result
       THEN LET sorted == ascendScanData(nodes)
                name   == Filename(modes[idx])
            IN  /\ csv' = [csv EXCEPT ![name] = csv[name] \o Rows(sorted)]
                /\ Logged(<<Event("ascendScanData", TRUE, count)>> \o RowEvents(count))
       ELSE UNCHANGED <<csv, log>>
    /\ idx' = idx + 1
    /\ nodes' = <<>>
    /\ count' = 0
    /\ actualMode' = Garbage
    /\ pc' = "loop"
    /\ UNCHANGED <<prog, exitStatus, ofGood, file, modes, op_result>>

\* drv->stop(); return 0;
stop ==
    /\ pc = "stop"
    /\ Logged(<<Event("stop", TRUE, 0)>>)
    /\ Exit(0)
    /\ UNCHANGED <<prog, ofGood, file, modes, idx, actualMode, csv, nodes,
                   count, op_result>>

-----------------------------------------------------------------------------
Next ==
    \/ makeChannel
    \/ makeDriver
    \/ getDeviceInfo
    \/ checkSLAMTECLIDARHealth
    \/ setMotorSpeed
    \/ openFile
    \/ startScan
    \/ grab
    \/ ascend
    \/ writeCount
    \/ writeNodes
    \/ getAllSupportedScanModes
    \/ loop
    \/ startScanExpress
    \/ grabSweep
    \/ export
    \/ stop

Spec == Init /\ [][Next]_vars

\* main() runs to its end: every step that is enabled is eventually taken
FairSpec == Spec /\ WF_vars(Next)

-----------------------------------------------------------------------------
(* Vocabulary of the properties *)

ScanStarts == {"startScan", "startScanExpress"}

SampleWrites == {"of.write", "of.print: row"}

ExportWrites == SampleWrites \cup {"of.print: header"}

\* what a run must not do on a device that is not verified
ScanActivity ==
    {"setMotorSpeed", "grabScanDataHq", "reset"} \cup ScanStarts \cup ExportWrites

IsReport(e) == e.op \in
    {"stderr: Failed to create channel",
     "stderr: insufficent memory, exit",
     "stderr: Failed to create lidar driver",
     "stderr: Failed to connect channel to driver",
     "stderr: Failed to get device info",
     "stderr: Error, slamtec lidar internal error detected",
     "stderr: Error, cannot retrieve the lidar health code",
     "stderr: Failed to get scan modes",
     "stderr: Failed to read from lidar"}

Positions == 1..Len(log)

HealthError(i) ==
    log[i].op = "getHealth" /\ log[i].ok /\ log[i].arg = StatusCode("ERROR")

HealthPassed(i) ==
    log[i].op = "getHealth" /\ log[i].ok /\ log[i].arg # StatusCode("ERROR")

FailedGrab(i) == log[i].op = "grabScanDataHq" /\ ~log[i].ok

\* the entries of the log whose op is in S, in order
Only(S) == SelectSeq(log, LAMBDA e : e.op \in S)

-----------------------------------------------------------------------------
\* C1: in both programs, when getHealth succeeds with status ERROR the run
\* reports the unhealthy device on stderr and ends, and neither before nor
\* after has it issued setMotorSpeed, a scan start, a retrieval, a reset or
\* an export write.
C1_HealthErrorBlocksScan ==
    \A i \in Positions :
        HealthError(i) =>
            /\ pc = "done"
            /\ Len(log) = i + 1
            /\ log[i + 1].op = "stderr: Error, slamtec lidar internal error detected"
            /\ \A j \in Positions : log[j].op \notin ScanActivity
            /\ file = <<>>
            /\ \A f \in Filenames : csv[f] = <<>>

C1_Witness ==
    /\ pc = "done"
    /\ \E i \in Positions : HealthError(i)

\* C2: a motor start, scan start or retrieval is issued only after, in this
\* order, connect succeeded, getDeviceInfo succeeded and getHealth succeeded
\* with a status other than ERROR (WARNING passes): these are the first three
\* calls of the run; and once one of the three has failed the run has ended
\* with nothing after it but the report.
C2_BootstrapOrder ==
    /\ \A k \in Positions :
          log[k].op \in {"setMotorSpeed", "grabScanDataHq"} \cup ScanStarts =>
              /\ k > 3
              /\ log[1].op = "connect" /\ log[1].ok
              /\ log[2].op = "getDeviceInfo" /\ log[2].ok
              /\ HealthPassed(3)
    /\ \A i \in Positions :
          (/\ log[i].op \in {"connect", "getDeviceInfo", "getHealth"}
           /\ ~log[i].ok \/ HealthError(i)) =>
              /\ pc = "done"
              /\ \A j \in (i + 1)..Len(log) : IsReport(log[j])

C2_Witness ==
    \E c, k \in Positions :
        /\ c < k
        /\ HealthPassed(c) /\ log[c].arg = StatusCode("WARNING")
        /\ log[k].op = "grabScanDataHq"

-----------------------------------------------------------------------------
(* The sweep, seen through its log *)

\* the artifact creations, scan starts and retrievals of the sweep, in order
SweepSteps == Only({"of.print: header", "startScanExpress", "grabScanDataHq"})

\* the mode whose iteration issued the j-th of these steps
ModeOfStep(j) == (j + 2) \div 3

SweepExited == prog = "sample_data" /\ pc = "done" /\ exitStatus = 0

\* C3: the sweep visits the modes of getAllSupportedScanModes in the order
\* returned, each exactly once, with exactly one scan start (for that mode's
\* id) and one retrieval per mode, whatever the retrievals return; a failed
\* retrieval writes no row and is followed by the next mode's iteration (or,
\* after the last mode, by stop).
C3_SweepVisitsEveryModeOnce ==
    prog = "sample_data" =>
        /\ LET steps == SweepSteps
           IN  /\ \A j \in 1..Len(steps) :
                     /\ ModeOfStep(j) <= Len(modes)
                     /\ LET e == steps[j]
                            m == modes[ModeOfStep(j)]
                        IN  CASE j % 3 = 1 -> e.op = "of.print: header" /\ e.arg = m.id
                              [] j % 3 = 2 -> e.op = "startScanExpress" /\ e.arg = m.id
                              [] OTHER     -> e.op = "grabScanDataHq"
               /\ Len(steps) =
                     3 * (idx - 1) + (CASE pc = "startScanExpress" -> 1
                                        [] pc = "grabSweep"        -> 2
                                        [] pc = "export"           -> 3
                                        [] OTHER                   -> 0)
        /\ SweepExited => idx = Len(modes) + 1
        /\ \A k \in Positions :
              (FailedGrab(k) /\ k < Len(log)) =>
                  log[k + 1].op \in {"of.print: header", "stop"}

C3_Witness ==
    /\ SweepExited
    /\ Len(modes) = MaxModes
    /\ \E k, l \in Positions :
          /\ k < l
          /\ FailedGrab(k)
          /\ log[l].op = "grabScanDataHq" /\ log[l].ok

-----------------------------------------------------------------------------
(* data.bin, read back *)

\* the length prefixes of the blocks of f, read as a consumer reads them: a
\* count word, then that many node words; <<-1>> ends the result where f is
\* not of that shape
RECURSIVE BlockCounts(_)
BlockCounts(f) ==
    IF f = <<>> THEN <<>>
    ELSE IF Head(f)[1] # "size_t" THEN <<-1>>
    ELSE LET n == Head(f)[2]
         IN  IF Len(f) < n + 1 \/ \E i \in 2..(n + 1) : f[i][1] # "node"
             THEN <<-1>>
             ELSE <<n>> \o BlockCounts(SubSeq(f, n + 2, Len(f)))

\* the counts the successful retrievals returned, in order
ReturnedCounts ==
    LET a == Only({"ascendScanData"}) IN [i \in 1..Len(a) |-> a[i].arg]

ContinuousEnded == prog = "read_data_bin" /\ pc = "done" /\ \E k \in Positions : FailedGrab(k)

\* C5: when continuous capture has ended on the failure of retrieval N+1,
\* data.bin holds exactly N blocks, block i being the count retrieval i
\* returned followed by that many records, with nothing for the failed
\* retrieval, and the failure was reported.
C5_NBlocksAfterNRetrievals ==
    ContinuousEnded =>
        /\ BlockCounts(file) = ReturnedCounts
        /\ Len(ReturnedCounts) = Len(Only({"grabScanDataHq"})) - 1
        /\ \E r \in Positions : log[r].op = "stderr: Failed to read from lidar"

ThetaLeq(r, t) == r.theta[1] * t.theta[2] <= t.theta[1] * r.theta[2]

\* C7: every sample written to an artifact belongs to a batch that was
\* retrieved successfully and then passed through ascendScanData before the
\* write: the order is retrieve, reorder, write, in both programs (a write of
\* samples comes right after the reorder or after another write of the same
\* batch, the reorder right after a successful retrieval); what is written
\* is in ascending angular order.
C7_ReorderBeforeWrite ==
    /\ \A k \in Positions :
          /\ log[k].op \in SampleWrites =>
                /\ k > 1
                /\ log[k - 1].op \in SampleWrites \cup {"ascendScanData"}
          /\ log[k].op = "ascendScanData" =>
                /\ k > 1
                /\ log[k - 1].op = "grabScanDataHq" /\ log[k - 1].ok
    /\ pc \in {"writeCount", "writeNodes"} => IsAscending(nodes)
    /\ \A i \in 1..(Len(file) - 1) :
          (file[i][1] = "node" /\ file[i + 1][1] = "node") =>
              file[i][2].angle_z_q14 <= file[i + 1][2].angle_z_q14
    /\ \A f \in Filenames :
          \A i \in 2..(Len(csv[f]) - 1) : ThetaLeq(csv[f][i], csv[f][i + 1])

C7_Witness ==
    /\ \E f \in Filenames : csv[f] = <<"theta,dist,q,flag">> \o Rows(<<NodeB, NodeA>>)
    /\ \E k \in Positions : log[k].op = "of.print: row"

\* C8: by the end of a run, every failed grabScanDataHq has been followed by
\* the report of the failure and by a stop() issued before any further scan
\* start or retrieval, and no sample of the failed batch was written.
C8_FailedGrabReportedAndStopped ==
    pc = "done" =>
        \A k \in Positions :
            FailedGrab(k) =>
                /\ \E r \in (k + 1)..Len(log) : log[r].op = "stderr: Failed to read from lidar"
                /\ \E s \in (k + 1)..Len(log) :
                      /\ log[s].op = "stop"
                      /\ \A j \in (k + 1)..(s - 1) :
                            log[j].op \notin ScanStarts \cup {"grabScanDataHq"}
                /\ \A j \in (k + 1)..Len(log) :
                      log[j].op \in SampleWrites =>
                          \E g \in (k + 1)..(j - 1) : log[g].op = "grabScanDataHq"

NoFurtherCapture(k) ==
    \A j \in (k + 1)..Len(log) :
        log[j].op \notin ScanStarts \cup {"grabScanDataHq"} \cup ExportWrites

\* C9, as stated: after a failed grabScanDataHq, in either program, there is
\* no further scan start, retrieval or export.
C9_AnyGrabFailureStopsProgram ==
    \A k \in Positions : FailedGrab(k) => NoFurtherCapture(k)

\* C9, amended: in continuous capture a failed grabScanDataHq stops the
\* program: nothing is started, retrieved or exported after it and the
\* process has exited with -1.
C9_ContinuousGrabFailureStopsProgram ==
    prog = "read_data_bin" =>
        \A k \in Positions :
            FailedGrab(k) =>
                /\ NoFurtherCapture(k)
                /\ pc = "done"
                /\ exitStatus = -1

C9_Witness ==
    /\ ContinuousEnded
    /\ Len(Only({"grabScanDataHq"})) > 1
    /\ \E k \in Positions : log[k].op = "of.write" /\ log[k].ok /\ log[k].arg > 0

\* C10: in continuous capture, after a failed write to data.bin no further
\* grabScanDataHq is issued.
C10_WriteFailureStopsCapture ==
    \A k \in Positions :
        (log[k].op = "of.write" /\ ~log[k].ok) =>
            \A j \in (k + 1)..Len(log) : log[j].op # "grabScanDataHq"


-----------------------------------------------------------------------------
\* C11: a failed motor start is fatal: after setMotorSpeed has returned a
\* failure, no scan start and no retrieval is issued.
C11_MotorStartFailureIsFatal ==
    \A k \in Positions :
        (log[k].op = "setMotorSpeed" /\ ~log[k].ok) =>
            \A j \in (k + 1)..Len(log) :
                log[j].op \notin ScanStarts \cup {"grabScanDataHq"}


-----------------------------------------------------------------------------
\* C12: in every sweep iteration the working mode reported on stdout is the
\* mode the device returned from startScanExpress: the report follows a
\* startScanExpress that returned one (it succeeded), names a mode of the
\* device, and is the value the driver stored in actualMode, whether or not
\* that is the requested id.
C12_ReportedModeIsNegotiated ==
    \A k \in Positions :
        log[k].op = "stdout: Working in mode" =>
            /\ k > 1
            /\ log[k - 1].op = "startScanExpress"
            /\ log[k - 1].ok
            /\ log[k].arg \in ModeIds
            /\ (pc = "grabSweep" /\ k = Len(log)) => log[k].arg = actualMode


-----------------------------------------------------------------------------
(* What a run ended on, read from its last report *)

LastReport == IF log = <<>> THEN "" ELSE log[Len(log)].op

\* no device: the channel could not be created
ChannelFailed == pc = "done" /\ LastReport = "stderr: Failed to create channel"

\* allocation of the channel or of the driver failed
AllocFailed == pc = "done" /\ LastReport = "stderr: insufficent memory, exit"

\* device present but misbehaving or unhealthy
DeviceFailed ==
    /\ pc = "done"
    /\ LastReport \in {"stderr: Failed to get device info",
                       "stderr: Error, cannot retrieve the lidar health code",
                       "stderr: Error, slamtec lidar internal error detected"}

\* C13, as stated: the exit status of a run that ended on channel creation
\* differs from the one of a run that ended on the info query, the health
\* query or health ERROR (which is -1), and allocation failure has a status
\* different from both.
C13_NoDeviceStatusDistinct ==
    /\ DeviceFailed => exitStatus = -1
    /\ ChannelFailed => exitStatus # -1
    /\ AllocFailed => exitStatus # -1

\* C13, amended: allocation failure exits with -2; channel-creation failure
\* exits with -1, the same status as a failed info query, a failed health
\* query and health ERROR.
C13_OnlyAllocationStatusDistinct ==
    /\ DeviceFailed => exitStatus = -1
    /\ ChannelFailed => exitStatus = -1
    /\ AllocFailed => exitStatus = -2

C13_Witness == ChannelFailed /\ exitStatus = -1


-----------------------------------------------------------------------------
\* the capture loop of read_data_bin has been entered
InCaptureLoop == prog = "read_data_bin" /\ Len(log) >= 5 /\ log[5].op = "startScan"

\* C14: continuous capture has no normal end.  Once the capture loop is
\* entered the program has exited exactly when a retrieval has failed, and
\* then with -1 after the report and stop(); every successful retrieval is
\* followed by the reorder, the two writes of its block and the next
\* retrieval; the stop() and return 0 after the loop are never reached.
C14_ContinuousEndsOnlyOnFailure ==
    prog = "read_data_bin" =>
        /\ pc # "stop"
        /\ pc = "done" => exitStatus # 0
        /\ (InCaptureLoop /\ pc = "done") =>
              /\ exitStatus = -1
              /\ log[Len(log)].op = "stop"
              /\ log[Len(log) - 1].op = "stderr: Failed to read from lidar"
              /\ FailedGrab(Len(log) - 2)
        /\ (InCaptureLoop /\ pc # "done") => \A k \in Positions : ~FailedGrab(k)
        /\ \A k \in Positions :
              (log[k].op = "grabScanDataHq" /\ log[k].ok) =>
                  /\ k + 1 <= Len(log) => log[k + 1].op = "ascendScanData"
                  /\ k + 2 <= Len(log) => log[k + 2].op = "of.write"
                  /\ k + 3 <= Len(log) => log[k + 3].op = "of.write"
                  /\ k + 4 <= Len(log) => log[k + 4].op = "grabScanDataHq"
                  /\ k = Len(log) => pc = "ascend"
                  /\ k + 1 = Len(log) => pc = "writeCount"
                  /\ k + 2 = Len(log) => pc = "writeNodes"
                  /\ k + 3 = Len(log) => pc = "grab"

C14_Witness ==
    /\ InCaptureLoop
    /\ pc = "done"
    /\ Len(Only({"ascendScanData"})) = MaxBatches
    /\ BlockCounts(file) = ReturnedCounts


-----------------------------------------------------------------------------
(* The export of one batch, on raw values over the range of their types *)

\* raw angles (16 bit) and raw distances (32 bit) of the measurement nodes
ConvAngles == {0, 1, 8191, 16384, 49152, 65535}
ConvDists == {0, 1, 6, 40, 48000, 16777216, 16777217, 16777219, 33554434, 1073741825}

ConvNodes ==
    [angle_z_q14 : ConvAngles, dist_mm_q2 : ConvDists, quality : {188}, flag : {0, 1}]

\* the sweep at the export of the batch of its first mode
ConvInit ==
    /\ prog = "sample_data"
    /\ pc = "export"
    /\ exitStatus = 0
    /\ log = <<Event("connect", TRUE, 0),
               Event("getDeviceInfo", TRUE, 0),
               Event("getHealth", TRUE, StatusCode("OK")),
               Event("setMotorSpeed", TRUE, 0),
               Event("getAllSupportedScanModes", TRUE, 0),
               Event("of.print: header", TRUE, 0),
               Event("startScanExpress", TRUE, 0),
               Event("stdout: Working in mode", TRUE, 0),
               Event("grabScanDataHq", TRUE, NodesSize)>>
    /\ ofGood = FALSE
    /\ file = <<>>
    /\ modes = <<LidarScanMode(0)>>
    /\ idx = 1
    /\ actualMode = 0
    /\ csv = [f \in Filenames |->
                IF f = Filename(LidarScanMode(0)) THEN <<"theta,dist,q,flag">> ELSE <<>>]
    /\ \E n \in ConvNodes : nodes = <<n>>
    /\ count = 1
    /\ op_result = TRUE

ConvSpec == ConvInit /\ [][export]_vars

\* the rows the export step appends, each with the node it was made from
ExportedPairs ==
    LET name   == Filename(modes[idx])
        sorted == ascendScanData(nodes)
    IN  {<<csv'[name][Len(csv[name]) + i], sorted[i]>> : i \in 1..count}

ExportStep == pc = "export" /\ op_result /\ pc' = "loop"

RowDistQ2(r) == r.dist[1] * (4 \div r.dist[2])

-----------------------------------------------------------------------------
\* C16: every grabScanDataHq, in both programs, is called with a capacity of
\* exactly 8192, whatever count an earlier retrieval returned, and every batch
\* handed on to the reorder and the export has between 0 and 8192 samples.
C16_CapacityAlways8192 ==
    /\ \A k \in Positions :
          /\ log[k].op = "grabScanDataHq" => log[k].arg = 8192
          /\ log[k].op = "ascendScanData" => log[k].arg \in 0..8192
    /\ count \in 0..8192
    /\ Len(nodes) = count

C16_Witness ==
    \E k \in Positions :
        /\ k + 1 < Len(log)
        /\ log[k].op = "grabScanDataHq" /\ log[k].ok
        /\ log[k + 1].op = "ascendScanData" /\ log[k + 1].arg < 8192
        /\ log[Len(log)].op = "grabScanDataHq" /\ log[Len(log)].arg = 8192


-----------------------------------------------------------------------------
\* C17: a run that has issued setMotorSpeed has issued stop() after it by
\* the time the process has exited, also when the enumeration of the scan
\* modes failed.
C17_StopAfterMotorStart ==
    pc = "done" =>
        \A k \in Positions :
            log[k].op = "setMotorSpeed" =>
                \E s \in (k + 1)..Len(log) : log[s].op = "stop"

\* C18: a grabScanDataHq is issued only when the scan start before it
\* returned success, and the working mode is reported only for a scan start
\* that returned success.
C18_GrabOnlyAfterSuccessfulStart ==
    \A k \in Positions :
        /\ log[k].op = "grabScanDataHq" =>
              \E s \in 1..(k - 1) :
                  /\ log[s].op \in ScanStarts
                  /\ log[s].ok
                  /\ \A j \in (s + 1)..(k - 1) : log[j].op \notin ScanStarts
        /\ log[k].op = "stdout: Working in mode" => log[k - 1].ok

\* C19: the rows written to the artifact named after mode m were captured
\* while the device was scanning in mode m: the scan start of that iteration
\* succeeded and the mode it negotiated is the requested mode m.
C19_ArtifactHoldsItsOwnMode ==
    \A k \in Positions :
        (log[k].op = "of.print: row" /\ log[k].arg = 0) =>
            /\ k > 4
            /\ log[k - 4].op = "startScanExpress"
            /\ log[k - 4].ok
            /\ log[k - 3].op = "stdout: Working in mode"
            /\ log[k - 3].arg = log[k - 4].arg

====
